---------------------------- MODULE Spec2Model ----------------------------
(***************************************************************************)
(* kioku: random human-readable names for experiments, with a metadata     *)
(* record written to a JSON / JSON-lines file (src/src/main.rs).           *)
(*                                                                         *)
(* A String is a sequence of one-character strings, an Option<T> is the    *)
(* empty sequence (None) or a one-element sequence (Some(x)), a file system*)
(* is a function from the names of the files that exist to their contents. *)
(***************************************************************************)
EXTENDS Integers, Sequences, FiniteSets, TLC

VARIABLES
    pc,          \* position of the process in main / inner_main
    runs,        \* number of processes started so far
    cli,         \* the parsed Cli of the current run
    userFile,    \* the file -w/--words names: None (no such file) or Some(text)
    cache,       \* the default wordlist file: None (absent) or Some(text)
    files,       \* metadata files: resolved name -> bytes
    loaded,      \* the Result of parse_wordlist in this run, None before the call
    wordlist,    \* inner_main's wordlist
    draws,       \* the values rng.random_range returned in generate_name
    name,        \* inner_main's name
    meta,        \* the last generate_metadata call: its target, mode, record, result
    acq,         \* what ensure_wordlist did in this run
    trace,       \* the steps of this run, in order
    stdout,      \* lines this run printed on standard output
    stderr,      \* messages this run printed on standard error
    exitCode,    \* exit status of the run, Running while it runs
    writes,      \* every generate_metadata call that opened its file
    fetches      \* number of HTTP GETs of the default wordlist so far

vars == <<pc, runs, cli, userFile, cache, files, loaded, wordlist, draws,
          name, meta, acq, trace, stdout, stderr, exitCode, writes, fetches>>

---------------------------------------------------------------------------
(* Bounds of the model. *)

\* processes run one after the other
MaxRuns == 2
\* runs of the default-wordlist scenario
MaxCacheRuns == 3
\* largest --length
MaxLength == 2
\* longest wordlist file of a whole run, in characters
MaxFileLen == 1
\* longest wordlist file parse_wordlist is tried on, in characters
MaxParseLen == 5
\* pieces an output path given to generate_metadata is made of
MaxPieces == 3

---------------------------------------------------------------------------
(* Option, Result and strings. *)

None == <<>>

Some(x) == <<x>>

Ok(v) == [ok |-> TRUE, val |-> v]

Err(e) == [ok |-> FALSE, err |-> e]

\* char::is_whitespace, on the characters the model uses
is_whitespace(c) == c \in {" ", "\t", "\r", "\n"}

\* str::ends_with
ends_with(s, suffix) ==
    /\ Len(s) >= Len(suffix)
    /\ SubSeq(s, Len(s) - Len(suffix) + 1, Len(s)) = suffix

\* str::starts_with
starts_with(s, prefix) ==
    /\ Len(s) >= Len(prefix)
    /\ SubSeq(s, 1, Len(prefix)) = prefix

\* str::trim: the string without its leading and trailing whitespace
trim(y) ==
    LET keep == {i \in 1..Len(y) : ~is_whitespace(y[i])}
    IN  IF keep = {} THEN <<>>
        ELSE LET first == CHOOSE i \in keep : \A j \in keep : i <= j
                 last  == CHOOSE i \in keep : \A j \in keep : j <= i
             IN  SubSeq(y, first, last)

\* str::contains(char::is_whitespace)
contains_whitespace(s) == \E i \in 1..Len(s) : is_whitespace(s[i])

\* str::to_lowercase, on the characters the model uses
to_lowercase(s) ==
    [i \in 1..Len(s) |-> IF s[i] = "N" THEN "n" ELSE IF s[i] = "Y" THEN "y" ELSE s[i]]

\* BufRead::lines: the text cut at each "\n"; a line loses its "\n" and a
\* "\r" right before it; text after the last "\n" is a line of its own
RECURSIVE lines(_)
lines(text) ==
    IF text = <<>> THEN <<>>
    ELSE LET nl == {i \in 1..Len(text) : text[i] = "\n"}
         IN  IF nl = {} THEN <<text>>
             ELSE LET k    == CHOOSE i \in nl : \A j \in nl : i <= j
                      raw  == SubSeq(text, 1, k - 1)
                      line == IF raw # <<>> /\ raw[Len(raw)] = "\r"
                              THEN SubSeq(raw, 1, Len(raw) - 1) ELSE raw
                  IN  <<line>> \o lines(SubSeq(text, k + 1, Len(text)))

---------------------------------------------------------------------------
(* WordlistErr and its Display. *)

FileErr(fil, e) == [type |-> "FileErr", file |-> Some(fil), io |-> e]

FileErrStripped(e) == [type |-> "FileErr", file |-> None, io |-> e]

NotWordList == [type |-> "NotWordList", file |-> None, io |-> "none"]

\* a bare std::io::Error: the kind, and no file name
IoError(kind) == [type |-> "io", file |-> None, io |-> kind]

\* a Box<dyn Error> made from a &str or a String
Message(text) == [type |-> "message", file |-> None, io |-> text]

strip_filename(e) ==
    IF e.type = "FileErr" /\ e.file # None THEN FileErrStripped(e.io) ELSE e

\* what eprintln!("{}", e) writes
Display(e) ==
    CASE e.type = "FileErr" /\ e.file # None -> <<e.file[1], ": ", e.io>>
      [] e.type = "FileErr" /\ e.file = None -> <<e.io>>
      [] e.type = "NotWordList"              -> <<"Wordlist badly formatted">>
      [] OTHER                               -> <<e.io>>

---------------------------------------------------------------------------
(* parse_wordlist *)

\* parse_line with the whitespace test made on the line as read, before
\* it is trimmed
parse_line_untrimmed(filename, x) ==
    IF ~x.ok THEN Err(FileErr(filename, x.err))
    ELSE IF contains_whitespace(x.val) THEN Err(NotWordList) ELSE Ok(trim(x.val))

\* one item of the iterator: the line read (or the read error), trimmed,
\* refused when whitespace is left inside it
parse_line(filename, x) ==
    IF ~x.ok THEN Err(FileErr(filename, x.err))
    ELSE LET ty == trim(x.val)
         IN  IF contains_whitespace(ty) THEN Err(NotWordList) ELSE Ok(ty)

\* collect::<Result<Vec<_>, _>>(): the items in order, up to the first Err
RECURSIVE collect(_, _)
collect(items, acc) ==
    IF items = <<>> THEN Ok(acc)
    ELSE IF ~items[1].ok THEN items[1]
    ELSE collect(Tail(items), Append(acc, items[1].val))

\* file: None when File::open fails, Some(text) otherwise; eio: the number
\* of the line whose read fails, 0 when every read succeeds
parse_wordlist(filename, file, eio) ==
    IF file = None THEN Err(FileErr(filename, "NotFound"))
    ELSE LET ls    == lines(file[1])
             reads == [i \in 1..Len(ls) |->
                          IF i = eio THEN Err("InvalidData") ELSE Ok(ls[i])]
         IN  collect([i \in 1..Len(ls) |-> parse_line(filename, reads[i])], <<>>)

---------------------------------------------------------------------------
(* generate_name *)

\* the loop body, for the words wordlist[draw[i]], i = k..num_words
RECURSIVE push_words(_, _, _, _)
push_words(output, wordlist_, draw, k) ==
    IF k > Len(draw) THEN output
    ELSE LET word == wordlist_[draw[k]]
         IN  push_words(IF Len(output) = 0 THEN word
                        ELSE output \o <<"-">> \o word,
                        wordlist_, draw, k + 1)

\* draw[i] is the i-th value of rng.random_range(0..wordlist.len()), plus one
generate_name(wordlist_, draw) == push_words(<<>>, wordlist_, draw, 1)

---------------------------------------------------------------------------
(* MetaData and its JSON text.  A text is a sequence of tokens: the         *)
(* characters of the label one by one, every other lexeme as one token.     *)

MetaData(label, revision, timestamp) ==
    [label |-> label, revision |-> revision, timestamp |-> timestamp]

\* a JSON string holding a whole value (a revision, a timestamp) as one token
Quoted(s) == "\"" \o s \o "\""

\* serde_json::to_writer_pretty: two-space indentation, one member per
\* line, None as null; nothing follows the closing brace
to_writer_pretty(m) ==
    <<"{", "\n", "  ", "\"label\"", ": ", "\"">> \o m.label \o <<"\"", ",", "\n",
      "  ", "\"revision\"", ": ",
      IF m.revision = None THEN "null" ELSE Quoted(m.revision[1]), ",", "\n",
      "  ", "\"timestamp\"", ": ", Quoted(m.timestamp), "\n", "}">>

\* default capacity of io::BufWriter, in bytes
DEFAULT_BUF_SIZE == 8192

\* append_mode with the test made for the other extension
append_mode_json(filename) == ends_with(filename, <<".", "j", "s", "o", "n">>)

\* lines 111-115: append for a .jsonl name, plain write (no truncation)
\* for any other
append_mode(filename) == ends_with(filename, <<".", "j", "s", "o", "n", "l">>)

\* lines 116-122: the name of the file that is opened
resolve_target(filename) ==
    IF \/ ends_with(filename, <<".", "j", "s", "o", "n", "l">>)
       \/ ends_with(filename, <<".", "j", "s", "o", "n">>)
    THEN filename
    ELSE filename \o <<".", "j", "s", "o", "n">>

\* the bytes of a file after `landed` is written through a descriptor
\* opened with create(true) and append(true) or write(true): appended at
\* the end, or laid over the old bytes from offset 0, the rest kept
write_bytes(old, landed, append) ==
    IF append THEN old \o landed
    ELSE landed \o SubSeq(old, Len(landed) + 1, Len(old))

\* oerr: the error of OpenOptions::open, "none" when it succeeds;
\* torn: None, or Some(k) when the disk fails after k bytes of the record.
\* A record shorter than the buffer is written when the BufWriter is
\* dropped, where an error is ignored; a longer one fails inside
\* to_writer_pretty, whose result is unwrapped.
generate_metadata(filename, slug, revision, timestamp, fs, oerr, torn) ==
    LET m      == MetaData(slug, revision, timestamp)
        append == append_mode(filename)
        target == resolve_target(filename)
        bytes  == to_writer_pretty(m)
        old    == IF target \in DOMAIN fs THEN fs[target] ELSE <<>>
        landed == IF torn = None THEN bytes ELSE SubSeq(bytes, 1, torn[1])
        new    == write_bytes(old, landed, append)
    IN  IF oerr # "none"
        THEN [result |-> Err(IoError(oerr)), panicked |-> FALSE, opened |-> FALSE,
              target |-> target, append |-> append, record |-> m,
              complete |-> FALSE, files |-> fs]
        ELSE [result   |-> Ok("unit"),
              panicked |-> torn # None /\ Len(bytes) > DEFAULT_BUF_SIZE,
              opened   |-> TRUE,
              target   |-> target, append |-> append, record |-> m,
              complete |-> torn = None,
              files    |-> [f \in DOMAIN fs \cup {target} |->
                               IF f = target THEN new ELSE fs[f]]]

---------------------------------------------------------------------------
(* The default wordlist: ensure_wordlist, remove_wordlist. *)

\* default_wordlist_path: None when no home directory is known
default_wordlist_path(home) ==
    IF home THEN Some(<<"d", "a", "t", "a", "/", "w">>) ELSE None

\* declines without the lower-casing: only a small n refuses
declines_case_sensitive(input) == starts_with(trim(input), <<"n">>)

\* line 146
declines(input) == starts_with(to_lowercase(trim(input)), <<"n">>)

\* cacheFile: the file at the path; stdoutOk: standard output can be
\* written; input: the line read from standard input; dirOk: create_dir_all
\* succeeds; net: None when the GET fails, Some(text) otherwise; wr: how
\* fs::write ends ("ok", "denied": nothing created, "torn": the file is
\* created and the write fails)
ensure_wordlist(home, cacheFile, stdoutOk, input, dirOk, net, wr) ==
    LET path  == default_wordlist_path(home)
        quiet == [prompted |-> FALSE, fetched |-> FALSE,
                  saved |-> FALSE, panicked |-> FALSE, cache |-> cacheFile,
                  out |-> <<>>]
    IN  IF path = None
        THEN quiet @@
             [result |-> Err(Message("cannot determine default wordlist location"))]
        ELSE IF cacheFile # None
        THEN quiet @@ [result |-> Ok(path[1])]
        ELSE IF ~stdoutOk
        THEN [quiet EXCEPT !.panicked = TRUE] @@ [result |-> Err(Message("panic"))]
        ELSE IF declines(input)
        THEN [quiet EXCEPT !.prompted = TRUE, !.out = <<"prompt", "">>] @@
             [result |-> Err(Message("Not installing default wordlist"))]
        ELSE IF ~dirOk
        THEN [quiet EXCEPT !.prompted = TRUE, !.out = <<"prompt", "">>] @@
             [result |-> Err(IoError("PermissionDenied"))]
        ELSE IF net = None
        THEN [quiet EXCEPT !.prompted = TRUE, !.fetched = TRUE,
                           !.out = <<"prompt", "", "Downloading wordlist...">>] @@
             [result |-> Err(Message("error sending request"))]
        ELSE IF wr # "ok"
        THEN [quiet EXCEPT !.prompted = TRUE, !.fetched = TRUE,
                           !.cache = IF wr = "torn" THEN Some(<<>>) ELSE None,
                           !.out = <<"prompt", "", "Downloading wordlist...">>] @@
             [result |-> Err(IoError(IF wr = "torn" THEN "StorageFull"
                                     ELSE "PermissionDenied"))]
        ELSE [quiet EXCEPT !.prompted = TRUE, !.fetched = TRUE,
                           !.saved = TRUE, !.cache = Some(net[1]),
                           !.out = <<"prompt", "", "Downloading wordlist...",
                                     "Saved wordlist">>] @@
             [result |-> Ok(path[1])]

\* denied: fs::remove_file is refused
remove_wordlist(home, cacheFile, denied) ==
    LET path == default_wordlist_path(home)
    IN  IF path = None
        THEN [result |-> Err(Message("cannot determine default wordlist location")),
              cache |-> cacheFile]
        ELSE IF cacheFile = None
        THEN [result |-> Err(IoError("NotFound")), cache |-> cacheFile]
        ELSE IF denied
        THEN [result |-> Err(IoError("PermissionDenied")), cache |-> cacheFile]
        ELSE [result |-> Ok("unit"), cache |-> None]

---------------------------------------------------------------------------
(* The inputs the model draws from. *)

\* every string of at most n characters of A
Strings(A, n) == UNION {[1..k -> A] : k \in 0..n}

\* the characters of a wordlist file: a letter, a blank, a line end
FileChars == {"a", " ", "\n"}

\* the path given with -w/--words
UserPath == <<"w">>

\* the paths given with -o/--output
OutputPaths ==
    { <<"r">>,
      <<"r", ".", "j", "s", "o", "n">>,
      <<"r", ".", "j", "s", "o", "n", "l">> }

\* what the wordlist server answers
NetTexts == { <<"a", "\n">> }

\* what the user types at the Y/n prompt; the empty string is end of input
Answers ==
    { <<"y", "\n">>, <<"\n">>, <<>>, <<"n", "\n">>, <<" ", "N", "o", "\n">> }

\* git2's answer: no repository (or no head), or the head commit
Revisions == {None, Some("4f2a")}

\* the errors OpenOptions::open ends with
OpenErrors == {"NotFound", "PermissionDenied"}

\* chrono::Local::now().to_rfc3339(): one instant per run
timestamp_of(run) == "T" \o ToString(run)

Running == -1

\* no file exists
EmptyFs == <<>>

NoMeta ==
    [called |-> FALSE, opened |-> FALSE, target |-> <<>>, append |-> FALSE,
     record |-> MetaData(<<>>, None, ""), complete |-> FALSE, result |-> Ok("unit"),
     before |-> EmptyFs]

NoAcq == [prompted |-> FALSE, input |-> <<>>, fetched |-> FALSE, saved |-> FALSE]

\* the numbers of the lines of a file whose read may fail; 0: none fails
ReadErrors(file) == 0..(IF file = None THEN 0 ELSE Len(lines(file[1])))

\* the Cli values of a run; with --remove-wordlist nothing else is read
Clis ==
    { [length |-> l, output |-> o, words |-> w, remove_wordlist |-> FALSE] :
        l \in 0..MaxLength,
        o \in {None} \cup {Some(p) : p \in OutputPaths},
        w \in {None, Some(UserPath)} }
    \cup { [length |-> MaxLength, output |-> None, words |-> None,
            remove_wordlist |-> TRUE] }

---------------------------------------------------------------------------
(* main: how a run ends. *)

\* lines 187-192: Ok ends the process with 0, Err(e) prints e and ends it with 1
main_exit(result) ==
    IF result.ok THEN [code |-> 0, err |-> <<>>]
    ELSE [code |-> 1, err |-> <<Display(result.err)>>]

\* a panic (unwrap of an Err, a failed print!, an empty range): the runtime
\* prints the panic message and the process ends with 101
panic_exit == [code |-> 101, err |-> <<<<"thread 'main' panicked">>>>]

\* clap refuses the command line: usage on standard error, exit status 2
usage_exit == [code |-> 2, err |-> <<<<"error: invalid value">>>>]

Exit(e) ==
    /\ pc' = "exited"
    /\ exitCode' = e.code
    /\ stderr' = stderr \o e.err

---------------------------------------------------------------------------
(* The state before the first run. *)

InitFresh ==
    /\ cache = None
    /\ files = EmptyFs
    /\ loaded = None
    /\ wordlist = <<>>
    /\ draws = <<>>
    /\ name = <<>>
    /\ meta = NoMeta
    /\ acq = NoAcq
    /\ stdout = <<>>
    /\ stderr = <<>>
    /\ exitCode = Running
    /\ writes = <<>>
    /\ fetches = 0

InitCommon ==
    /\ runs = 0
    /\ cli = [length |-> 0, output |-> None, words |-> None, remove_wordlist |-> FALSE]
    /\ trace = <<>>
    /\ InitFresh

Init ==
    /\ InitCommon
    /\ pc = "idle"
    /\ userFile \in {None} \cup {Some(t) : t \in Strings(FileChars, MaxFileLen)}

---------------------------------------------------------------------------
(* The steps of a run. *)

\* line 167, Cli::parse: a new process starts and reads its command line
Start(clis, maxRuns) ==
    /\ pc \in {"idle", "exited"}
    /\ runs < maxRuns
    /\ runs' = runs + 1
    /\ loaded' = None
    /\ wordlist' = <<>>
    /\ draws' = <<>>
    /\ name' = <<>>
    /\ meta' = NoMeta
    /\ acq' = NoAcq
    /\ stdout' = <<>>
    /\ \/ /\ \E c \in clis : cli' = c
          /\ pc' = "main"
          /\ trace' = <<"parse">>
          /\ stderr' = <<>>
          /\ exitCode' = Running
       \/ /\ pc' = "exited"
          /\ trace' = <<>>
          /\ stderr' = usage_exit.err
          /\ exitCode' = usage_exit.code
          /\ UNCHANGED cli
    /\ UNCHANGED <<userFile, cache, files, writes, fetches>>

CliParse == Start(Clis, MaxRuns)

\* lines 168-170
RemoveWordlist ==
    /\ pc = "main"
    /\ cli.remove_wordlist
    /\ \E home \in BOOLEAN, denied \in BOOLEAN :
          LET r == remove_wordlist(home, cache, denied)
          IN  /\ cache' = r.cache
              /\ Exit(main_exit(r.result))
    /\ trace' = Append(trace, "remove")
    /\ UNCHANGED <<runs, cli, userFile, files, loaded, wordlist, draws, name,
                   meta, acq, stdout, writes, fetches>>

\* lines 172-173: the wordlist the user named
LoadUser ==
    /\ pc = "main"
    /\ ~cli.remove_wordlist
    /\ cli.words # None
    /\ \E eio \in ReadErrors(userFile) :
          LET r == parse_wordlist(cli.words[1], userFile, eio)
          IN  /\ loaded' = Some(r)
              /\ IF r.ok
                 THEN /\ wordlist' = r.val
                      /\ pc' = "generate"
                      /\ UNCHANGED <<stderr, exitCode>>
                 ELSE /\ Exit(main_exit(r))
                      /\ UNCHANGED wordlist
    /\ trace' = Append(trace, "load")
    /\ UNCHANGED <<runs, cli, userFile, cache, files, draws, name,
                   meta, acq, stdout, writes, fetches>>

\* lines 174-178: the default wordlist, fetched when it is not there
LoadDefault ==
    /\ pc = "main"
    /\ ~cli.remove_wordlist
    /\ cli.words = None
    /\ \E home \in BOOLEAN, stdoutOk \in BOOLEAN, input \in Answers,
          dirOk \in BOOLEAN, net \in {None} \cup {Some(t) : t \in NetTexts},
          wr \in {"ok", "denied", "torn"} :
          LET e == ensure_wordlist(home, cache, stdoutOk, input, dirOk, net, wr)
          IN  /\ cache' = e.cache
              /\ acq' = [prompted |-> e.prompted,
                         input |-> IF e.prompted THEN input ELSE <<>>,
                         fetched |-> e.fetched, saved |-> e.saved]
              /\ fetches' = IF e.fetched THEN fetches + 1 ELSE fetches
              /\ stdout' = stdout \o e.out
              /\ IF e.panicked
                 THEN Exit(panic_exit) /\ UNCHANGED <<loaded, wordlist>>
                 ELSE IF ~e.result.ok
                 THEN Exit(main_exit(e.result)) /\ UNCHANGED <<loaded, wordlist>>
                 ELSE \E eio \in ReadErrors(e.cache) :
                         LET r == parse_wordlist(e.result.val, e.cache, eio)
                         IN  /\ loaded' = Some(r)
                             /\ IF r.ok
                                THEN /\ wordlist' = r.val
                                     /\ pc' = "generate"
                                     /\ UNCHANGED <<stderr, exitCode>>
                                ELSE /\ Exit(main_exit(Err(Message(
                                            <<"Error loading default wordlist: ">>
                                            \o Display(strip_filename(r.err))))))
                                     /\ UNCHANGED wordlist
    /\ trace' = Append(trace, "load")
    /\ UNCHANGED <<runs, cli, userFile, files, draws, name, meta, writes>>

\* line 179: empty range panics in random_range when a word is to be drawn
\* from an empty list
Generate ==
    /\ pc = "generate"
    /\ IF cli.length > 0 /\ Len(wordlist) = 0
       THEN /\ Exit(panic_exit)
            /\ UNCHANGED <<draws, name>>
       ELSE /\ \E draw \in [1..cli.length -> 1..Len(wordlist)] :
                  /\ draws' = draw
                  /\ name' = generate_name(wordlist, draw)
            /\ pc' = IF cli.output # None THEN "metadata" ELSE "print"
            /\ UNCHANGED <<stderr, exitCode>>
    /\ trace' = Append(trace, "generate")
    /\ UNCHANGED <<runs, cli, userFile, cache, files, loaded, wordlist, meta,
                   acq, stdout, writes, fetches>>

\* where a failing disk stops the write of a record of n bytes: half way
TornAt(n) == {Some(n \div 2)}

\* lines 180-182
Metadata ==
    /\ pc = "metadata"
    /\ \E revision \in Revisions, oerr \in {"none"} \cup OpenErrors :
       \E torn \in {None} \cup
                   TornAt(Len(to_writer_pretty(
                       MetaData(name, revision, timestamp_of(runs))))) :
          LET g == generate_metadata(cli.output[1], name, revision,
                                     timestamp_of(runs), files, oerr, torn)
          IN  /\ files' = g.files
              /\ meta' = [called |-> TRUE, opened |-> g.opened, target |-> g.target,
                          append |-> g.append, record |-> g.record,
                          complete |-> g.complete, result |-> g.result,
                          before |-> files]
              /\ writes' = IF g.opened
                           THEN Append(writes, [file |-> g.target, record |-> g.record,
                                                complete |-> g.complete])
                           ELSE writes
              /\ trace' = IF g.opened THEN trace \o <<"open", "metadata">>
                          ELSE Append(trace, "metadata")
              /\ IF g.panicked THEN Exit(panic_exit)
                 ELSE IF g.result.ok
                 THEN pc' = "print" /\ UNCHANGED <<stderr, exitCode>>
                 ELSE Exit(main_exit(g.result))
    /\ UNCHANGED <<runs, cli, userFile, cache, loaded, wordlist, draws, name,
                   acq, stdout, fetches>>

\* lines 183-184: println! panics when standard output cannot be written
\* (stdoutOk is FALSE when its reader has closed the pipe)
PrintName ==
    /\ pc = "print"
    /\ \E stdoutOk \in BOOLEAN :
          IF stdoutOk
          THEN /\ stdout' = Append(stdout, name)
               /\ Exit(main_exit(Ok("unit")))
          ELSE /\ Exit(panic_exit)
               /\ UNCHANGED stdout
    /\ trace' = Append(trace, "print")
    /\ UNCHANGED <<runs, cli, userFile, cache, files, loaded, wordlist, draws,
                   name, meta, acq, writes, fetches>>

Next ==
    \/ CliParse
    \/ RemoveWordlist
    \/ LoadUser
    \/ LoadDefault
    \/ Generate
    \/ Metadata
    \/ PrintName

Spec == Init /\ [][Next]_vars

---------------------------------------------------------------------------
(* parse_wordlist alone: a run that is about to load the wordlist the user *)
(* named, for every wordlist file of at most MaxParseLen characters.       *)

InitParse ==
    /\ pc = "main"
    /\ runs = 1
    /\ cli = [length |-> 1, output |-> None, words |-> Some(UserPath),
              remove_wordlist |-> FALSE]
    /\ trace = <<"parse">>
    /\ InitFresh
    /\ userFile \in {None} \cup {Some(t) : t \in Strings(FileChars, MaxParseLen)}

NextParse == LoadUser

SpecParse ==
    /\ InitParse
    /\ [][NextParse]_vars

---------------------------------------------------------------------------
(* generate_metadata alone: a run that has its name and is about to write  *)
(* the metadata, for many output paths, the target absent or present.      *)

PathPieces ==
    { <<"r">>, <<"l">>, <<"j", "s", "o", "n">>, <<".", "j", "s", "o">>,
      <<".", "j", "s", "o", "n">>, <<".", "j", "s", "o", "n", "l">> }

RECURSIVE Paths(_)
Paths(n) ==
    IF n = 0 THEN {<<>>}
    ELSE Paths(n - 1) \cup {p \o q : p \in Paths(n - 1), q \in PathPieces}

InitMeta ==
    /\ pc = "metadata"
    /\ runs = 1
    /\ \E p \in Paths(MaxPieces) :
          /\ cli = [length |-> 1, output |-> Some(p), words |-> Some(UserPath),
                    remove_wordlist |-> FALSE]
          /\ files \in {EmptyFs} \cup
                 {[f \in {q} |-> <<"{", "}">>] :
                     q \in {p, p \o <<".", "j", "s", "o", "n">>}}
    /\ userFile = Some(<<"a">>)
    /\ cache = None
    /\ loaded = Some(Ok(<< <<"a">> >>))
    /\ wordlist = << <<"a">> >>
    /\ draws = <<1>>
    /\ name = <<"a">>
    /\ meta = NoMeta
    /\ acq = NoAcq
    /\ trace = <<"parse", "load", "generate">>
    /\ stdout = <<>>
    /\ stderr = <<>>
    /\ exitCode = Running
    /\ writes = <<>>
    /\ fetches = 0

NextMeta == Metadata

SpecMeta ==
    /\ InitMeta
    /\ [][NextMeta]_vars

---------------------------------------------------------------------------
(* The default wordlist over several runs: runs that name no wordlist and  *)
(* no output file, and runs that remove the default wordlist.              *)

InitCache ==
    /\ InitCommon
    /\ pc = "idle"
    /\ userFile = None

CliParseDefault ==
    Start({c \in Clis : c.words = None /\ c.output = None}, MaxCacheRuns)

NextCache ==
    \/ CliParseDefault
    \/ RemoveWordlist
    \/ LoadDefault
    \/ Generate
    \/ PrintName

SpecCache ==
    /\ InitCache
    /\ [][NextCache]_vars

---------------------------------------------------------------------------
(* What the properties below are stated with. *)

DotJson == <<".", "j", "s", "o", "n">>

DotJsonl == <<".", "j", "s", "o", "n", "l">>

\* s is some string followed by suffix
HasSuffix(s, suffix) == \E k \in 0..Len(s) : s = SubSeq(s, 1, k) \o suffix

\* the words joined by single hyphens
RECURSIVE JoinWords(_)
JoinWords(ws) ==
    IF ws = <<>> THEN <<>>
    ELSE IF Len(ws) = 1 THEN ws[1]
    ELSE ws[1] \o <<"-">> \o JoinWords(Tail(ws))

\* the words generate_name drew, in order
DrawnWords == [i \in 1..Len(draws) |-> wordlist[draws[i]]]

\* whitespace with a visible character on either side of it
InnerBlank(line) ==
    \E i, j, k \in 1..Len(line) :
        /\ i < j /\ j < k
        /\ ~is_whitespace(line[i]) /\ is_whitespace(line[j]) /\ ~is_whitespace(line[k])

\* a JSON reader for metadata records: whitespace between tokens is
\* skipped, the text must be one object with the three members and
\* nothing else
JsonTokens(text) == SelectSeq(text, LAMBDA t : t \notin {"\n", "  "})

JsonStructure == {"{", "}", ",", ": ", "\"", "\"label\"", "\"revision\"", "\"timestamp\""}

from_json(text) ==
    LET t == JsonTokens(text)
        n == Len(t)
    IN  IF /\ n >= 14
           /\ SubSeq(t, 1, 4) = <<"{", "\"label\"", ": ", "\"">>
           /\ \A i \in 5..(n - 10) : t[i] \notin JsonStructure
           /\ SubSeq(t, n - 9, n - 6) = <<"\"", ",", "\"revision\"", ": ">>
           /\ t[n - 5] \notin JsonStructure
           /\ SubSeq(t, n - 4, n - 2) = <<",", "\"timestamp\"", ": ">>
           /\ t[n - 1] \notin JsonStructure
           /\ t[n] = "}"
        THEN Some([label |-> SubSeq(t, 5, n - 10), revision |-> t[n - 5],
                   timestamp |-> t[n - 1]])
        ELSE None

\* the text parses, and to the record m
ParsesTo(text, m) ==
    from_json(text) =
        Some([label |-> m.label,
              revision |-> IF m.revision = None THEN "null" ELSE Quoted(m.revision[1]),
              timestamp |-> Quoted(m.timestamp)])

\* the generate_metadata calls that opened file f, in call order
WritesTo(f) == SelectSeq(writes, LAMBDA w : w.file = f)

\* no call on f was cut short by a failing disk
AllComplete(f) == \A i \in 1..Len(writes) : writes[i].file = f => writes[i].complete

SameFs(a, b) == DOMAIN a = DOMAIN b /\ \A f \in DOMAIN a : a[f] = b[f]

\* the answer begins, after blanks, with n or N
Refuses(input) ==
    \E i \in 1..Len(input) :
        /\ input[i] \in {"n", "N"}
        /\ \A j \in 1..(i - 1) : is_whitespace(input[j])

---------------------------------------------------------------------------
(* Properties. *)

\* C1: for a non-empty wordlist W and length L, once generate_name has
\* returned, the name is the L drawn words of W joined by "-" (L-1
\* separators, none leading or trailing), and is empty for L = 0.
C1_NameIsJoinedWords ==
    (pc \in {"metadata", "print"} /\ wordlist # <<>>) =>
        /\ Len(draws) = cli.length
        /\ \A i \in 1..Len(draws) : DrawnWords[i] \in {wordlist[j] : j \in 1..Len(wordlist)}
        /\ name = JoinWords(DrawnWords)
        /\ (cli.length = 0 => name = <<>>)

\* C2: a .json target (not .jsonl) that calls of generate_metadata wrote,
\* none cut short by the disk, holds exactly the record of the last call.
C2_JsonHoldsLastRecord ==
    \A f \in DOMAIN files :
        (HasSuffix(f, DotJson) /\ WritesTo(f) # <<>> /\ AllComplete(f)) =>
            ParsesTo(files[f], WritesTo(f)[Len(WritesTo(f))].record)

\* C3: a .jsonl target written by n calls, none cut short by the disk,
\* holds n lines, line i parsing on its own to the record of call i; and a
\* call leaves the previous contents as a prefix of the new ones.
C3_JsonlOneRecordPerLine ==
    /\ \A f \in DOMAIN files :
          (HasSuffix(f, DotJsonl) /\ AllComplete(f)) =>
              /\ Len(lines(files[f])) = Len(WritesTo(f))
              /\ \A i \in 1..Len(WritesTo(f)) :
                    ParsesTo(lines(files[f])[i], WritesTo(f)[i].record)
    /\ (meta.opened /\ HasSuffix(meta.target, DotJsonl)
           /\ meta.target \in DOMAIN meta.before) =>
          starts_with(files[meta.target], meta.before[meta.target])

\* C4: generate_metadata called with path p opens one file, p itself when
\* p ends with .json or .jsonl and p.json otherwise, creating it if absent
\* and touching no other file; it appends exactly when that name ends with
\* .jsonl and writes from the start of the file otherwise.
C4_OneFileRightMode ==
    meta.called =>
        LET p == cli.output[1]
            t == IF HasSuffix(p, DotJson) \/ HasSuffix(p, DotJsonl)
                 THEN p ELSE p \o DotJson
            old == IF t \in DOMAIN meta.before THEN meta.before[t] ELSE <<>>
            bytes == to_writer_pretty(meta.record)
        IN  /\ meta.target = t
            /\ meta.append <=> HasSuffix(t, DotJsonl)
            /\ ~meta.opened => SameFs(files, meta.before)
            /\ meta.opened =>
                  /\ DOMAIN files = DOMAIN meta.before \cup {t}
                  /\ \A f \in DOMAIN meta.before \ {t} : files[f] = meta.before[f]
                  /\ meta.complete =>
                        IF HasSuffix(t, DotJsonl) THEN files[t] = old \o bytes
                        ELSE starts_with(files[t], bytes)

C4_Witness ==
    /\ meta.opened
    /\ meta.complete
    /\ cli.output = Some(<<"r">> \o DotJsonl \o DotJson)
    /\ meta.before = EmptyFs
    /\ DOMAIN files = {<<"r">> \o DotJsonl \o DotJson}
    /\ ~meta.append

\* C5: parse_wordlist on a file whose every line could be read fails with
\* NotWordList, and yields no word, exactly when a trimmed line still holds
\* whitespace; otherwise it returns the trimmed lines in file order.
C5_StrictParse ==
    (loaded # None /\ userFile # None) =>
        LET r   == loaded[1]
            ls  == lines(userFile[1])
            bad == \E i \in 1..Len(ls) : InnerBlank(ls[i])
        IN  (r.ok \/ r.err.type # "FileErr") =>
               /\ bad <=> (~r.ok /\ r.err = NotWordList)
               /\ ~r.ok => (wordlist = <<>> /\ pc = "exited")
               /\ ~bad => /\ r.ok
                          /\ r.val = [i \in 1..Len(ls) |-> trim(ls[i])]
                          /\ wordlist = r.val

C5_Witness ==
    /\ userFile = Some(<<"a", "\n", "a", " ", "a">>)
    /\ loaded = Some(Err(NotWordList))
    /\ pc = "exited"

\* C6: in a run with an output path the name is printed before the
\* metadata file is opened or written.
C6_PrintBeforeMetadata ==
    \A i \in 1..Len(trace) :
        trace[i] \in {"open", "metadata"} => \E j \in 1..(i - 1) : trace[j] = "print"

\* C7: a run whose command line was accepted ends with 0 and no message,
\* with 1 and a message, or with 141 and no message.
C7_ExitCodes ==
    (pc = "exited" /\ trace # <<>>) =>
        \/ exitCode = 0 /\ Len(stderr) = 0
        \/ exitCode = 1 /\ Len(stderr) = 1
        \/ exitCode = 141 /\ Len(stderr) = 0

\* C8: a generate_metadata call that did not put the whole record on disk
\* returned an Err naming the target file, and did not panic.
C8_WriteFailureIsReported ==
    (meta.called /\ ~(meta.opened /\ meta.complete)) =>
        /\ ~meta.result.ok
        /\ meta.result.err.file = Some(meta.target)
        /\ exitCode # panic_exit.code

C10_WordlistWellFormed ==
    pc = "generate" =>
        /\ wordlist # <<>>
        /\ \A i \in 1..Len(wordlist) :
              wordlist[i] # <<>> /\ ~contains_whitespace(wordlist[i])

===========================================================================
